---- MODULE Spec2Model ----
(***************************************************************************)
(* BehaviorSync.make of u19_pipeline/ephys_element.py as a state machine.  *)
(*                                                                         *)
(* One session run: locate the nidq binary, read its sidecar, map the raw  *)
(* file, extract the digital lines, detect the edges of line 1, insert the *)
(* master row, then insert one part row per probe insertion.               *)
(*                                                                         *)
(* readMeta, SampRate, makeMemMapRaw and ExtractDigital live in            *)
(* u19_pipeline/utils/DemoReadSGLXData/readSGLX.py, which is imported but  *)
(* not part of the sources at hand; they are modelled from the design      *)
(* document (sections 4.1 to 4.3).                                         *)
(*                                                                         *)
(* Python's None is modelled by the empty sequence, a value v by <<v>>.    *)
(* Times are kept in tenths of a second so that int(rate * t) truncates.   *)
(***************************************************************************)
EXTENDS Integers, Sequences, FiniteSets, TLC

VARIABLES
    nidqListing,           \* session_dir.glob('*nidq.bin*'), in listing order
    imecListing,           \* n |-> session_dir.glob('*imec{n}/*.ap.bin'), in listing order
    probes,                \* (ephys_element.ProbeInsertion & key).fetch('KEY')
    pc,                    \* position of make
    stage,                 \* state of the run in the design's state machine
    err,                   \* the exception that left make, "" if none
    nidq_bin_full_path,    \* local of make
    nidq_meta,             \* local of make
    last_sample_index,     \* local of make
    nidq_raw_data,         \* local of make
    digital_array,         \* local of make
    iteration_index_nidq,  \* local of make
    BehaviorSync,          \* rows of the master table for this key
    ImecSamplingRate,      \* rows of the part table for this key
    queue                  \* probe insertions the for loop has still to visit

vars == <<nidqListing, imecListing, probes, pc, stage, err, nidq_bin_full_path,
          nidq_meta, last_sample_index, nidq_raw_data, digital_array,
          iteration_index_nidq, BehaviorSync, ImecSamplingRate, queue>>

inputs == <<nidqListing, imecListing, probes>>
locals == <<nidq_bin_full_path, nidq_meta, last_sample_index, nidq_raw_data,
            digital_array, iteration_index_nidq>>
tables == <<BehaviorSync, ImecSamplingRate>>

---------------------------------------------------------------------------
(* Bounds of the model.                                                    *)

MaxSamples == 3        \* samples in a nidq file of a session run
MaxProbes == 2         \* probe insertions of a session
MaxTrace == 11         \* samples in a recording of the edge detection runs
MaxPeriod == 6         \* longest square wave period looked at
SavedChans == 2        \* nSavedChans of the nidq recordings

WordValues == {0, 1, 2}        \* digital words: lines 0 and 1 vary
EdgeWordValues == {1, 3}       \* line 0 high, line 1 varies
Rates == {1, 2}                \* niSampRate, Hz
FileTimes == {5, 15}           \* fileTimeSecs, tenths of a second
ImecRates == {30000, 30001}    \* imSampRate, Hz

---------------------------------------------------------------------------
(* Helpers.                                                                *)

Abs(x) == IF x < 0 THEN -x ELSE x

Range(s) == {s[i] : i \in DOMAIN s}

SeqsUpTo(S, n) == UNION {[1..k -> S] : k \in 0..n}

RECURSIVE SortedSeq(_)
SortedSeq(S) ==
    IF S = {} THEN <<>>
    ELSE LET m == CHOOSE x \in S : \A y \in S : x <= y
         IN  <<m>> \o SortedSeq(S \ {m})

---------------------------------------------------------------------------
(* readSGLX, from the design document.                                     *)

BytesPerSample == 2

\* 4.1 MetadataParser: the parsed sidecar, or MetadataParseError.
readMeta(file) ==
    IF file.meta.ok THEN [err |-> "", meta |-> file.meta]
    ELSE [err |-> "MetadataParseError", meta |-> file.meta]

\* 4.1: the sampling rate of a nidq sidecar is its niSampRate.
SampRate(meta) == meta.niSampRate

\* 4.2 MemoryMappedReader: the file size must be a whole number of frames.
makeMemMapRaw(file, meta) ==
    IF file.bytes % (meta.nSavedChans * BytesPerSample) # 0
    THEN [err |-> "CorruptRecordingError", data |-> <<>>]
    ELSE [err |-> "", data |-> file.words]

\* 4.3 DigitalChannelExtractor: line l of word w is (w >> l) & 1.
LineBit(w, l) == (w \div (2 ^ l)) % 2

\* 4.3: one trace per requested line over [firstSamp, lastSamp].
ExtractDigital(rawData, firstSamp, lastSamp, dwReq, dLineList) ==
    IF firstSamp < 0 \/ lastSamp >= Len(rawData)
    THEN [err |-> "RangeError", array |-> <<>>]
    ELSE IF \E i \in DOMAIN dLineList : dLineList[i] \notin 0..15
    THEN [err |-> "InvalidLineError", array |-> <<>>]
    ELSE [err |-> "",
          array |-> [i \in DOMAIN dLineList |->
                        [k \in 1..(lastSamp - firstSamp + 1) |->
                            LineBit(rawData[firstSamp + k], dLineList[i])]]]

---------------------------------------------------------------------------
(* numpy, as used on line 108.                                             *)

\* np.diff: d[j] = x[j+1] - x[j], one element fewer than x.
np_diff(x) == [j \in 1..(Len(x) - 1) |-> x[j + 1] - x[j]]

\* np.abs
np_abs(x) == [j \in DOMAIN x |-> Abs(x[j])]

\* Variant of np_where_gt_half: positions counted from one.
np_where_gt_half_onebased(x) ==
    LET idx == [j \in DOMAIN x |-> j]
    IN  SelectSeq(idx, LAMBDA j : 2 * x[j] > 1)

\* np.where(x > 0.5)[0]: the zero-based positions, ascending.
np_where_gt_half(x) ==
    LET idx == [j \in DOMAIN x |-> j - 1]
    IN  SelectSeq(idx, LAMBDA j : 2 * x[j + 1] > 1)

\* Variant of IterationIndex: np.abs left out, falling edges are lost.
IterationIndexRising(array) == np_where_gt_half(np_diff(array[2]))

\* Line 108.  digital_array[1, :] is the second row, that of d_line_list[1].
IterationIndex(array) == np_where_gt_half(np_abs(np_diff(array[2])))

\* Line 95.
d_line_list == <<0, 1, 2, 3, 4, 5, 6, 7>>

\* Line 94.
dw == 0

\* Line 92, times first_sample_index of line 98.
first_sample_index == 0

\* Variant of LastSampleIndex: the sample count taken for the last index.
LastSampleIndexInclusive(meta) == (SampRate(meta) * meta.fileTimeSecs10) \div 10

\* Line 99: int(nidq_sampling_rate * t_end) - 1.
LastSampleIndex(meta) == ((SampRate(meta) * meta.fileTimeSecs10) \div 10) - 1

---------------------------------------------------------------------------
(* The inputs of a session run.                                            *)

NidqMetas ==
    [ok : {TRUE}, niSampRate : Rates, fileTimeSecs10 : FileTimes,
     nSavedChans : {SavedChans}]
    \cup
    [ok : {FALSE}, niSampRate : {0}, fileTimeSecs10 : {0}, nSavedChans : {0}]

FrameBytes == SavedChans * BytesPerSample

\* A nidq file: its sidecar, its size, the digital words of its whole frames.
\* A file cut one byte short has a size of FrameBytes - 1 modulo FrameBytes.
NidqFilesOf(W, n) ==
    {[meta |-> m, bytes |-> Len(w) * FrameBytes + pad, words |-> w] :
        m \in NidqMetas, w \in SeqsUpTo(W, n), pad \in {0, FrameBytes - 1}}

NidqFiles == NidqFilesOf(WordValues, MaxSamples)

\* A second file that matches the pattern: an empty recording at 1 Hz.
ExtraNidqFiles ==
    {f \in NidqFilesOf(WordValues, 0) :
        f.meta.ok /\ f.meta.niSampRate = 1 /\ f.meta.fileTimeSecs10 = 5
        /\ f.bytes = 0}

NidqListings ==
    {<<>>} \cup {<<a>> : a \in NidqFiles}
    \cup {<<a, b>> : a \in NidqFiles, b \in ExtraNidqFiles}
    \cup {<<b, a>> : a \in NidqFiles, b \in ExtraNidqFiles}

ImecOk(r) == [meta |-> [ok |-> TRUE, imSampRate |-> r]]
ImecBad == [meta |-> [ok |-> FALSE, imSampRate |-> 0]]

\* The matches of a declared probe: none, one, or two with different rates.
ImecListings ==
    {<<>>, <<ImecBad>>} \cup {<<ImecOk(r)>> : r \in ImecRates}
    \cup {<<ImecOk(p[1]), ImecOk(p[2])>> :
             p \in {q \in ImecRates \X ImecRates : q[1] # q[2]}}

\* The matches of a probe number that is not declared for the session.
StrayListings == {<<>>} \cup {<<ImecOk(r)>> : r \in {30000}}

ProbeNumbers == 0..(MaxProbes - 1)

Init ==
    /\ nidqListing \in NidqListings
    /\ \E S \in SUBSET ProbeNumbers :
          /\ probes = SortedSeq(S)
          /\ imecListing \in [ProbeNumbers -> ImecListings \cup StrayListings]
          /\ \A n \in ProbeNumbers :
                IF n \in S THEN imecListing[n] \in ImecListings
                ELSE imecListing[n] \in StrayListings
    /\ pc = "glob"
    /\ stage = "MetadataPending"
    /\ err = ""
    /\ nidq_bin_full_path = <<>>
    /\ nidq_meta = <<>>
    /\ last_sample_index = <<>>
    /\ nidq_raw_data = <<>>
    /\ digital_array = <<>>
    /\ iteration_index_nidq = <<>>
    /\ BehaviorSync = {}
    /\ ImecSamplingRate = {}
    /\ queue = <<>>

---------------------------------------------------------------------------
(* make, one action per statement group.                                   *)

\* An exception leaves make: nothing after the raising statement runs.
Raise(e) ==
    /\ pc' = "failed"
    /\ err' = e

\* Variant of LocatePrimary: a session without a nidq file is skipped quietly.
LocatePrimarySilent ==
    /\ pc = "glob"
    /\ IF nidqListing = <<>>
       THEN /\ pc' = "done"
            /\ UNCHANGED <<nidq_bin_full_path, err>>
       ELSE /\ nidq_bin_full_path' = <<nidqListing[1]>>
            /\ pc' = "meta"
            /\ UNCHANGED err
    /\ UNCHANGED <<inputs, stage, nidq_meta, last_sample_index, nidq_raw_data,
                   digital_array, iteration_index_nidq, tables, queue>>

\* Lines 87-88: list(session_dir.glob('*nidq.bin*'))[0]
LocatePrimary ==
    /\ pc = "glob"
    /\ IF nidqListing = <<>>
       THEN /\ Raise("IndexError")
            /\ UNCHANGED nidq_bin_full_path
       ELSE /\ nidq_bin_full_path' = <<nidqListing[1]>>
            /\ pc' = "meta"
            /\ UNCHANGED err
    /\ UNCHANGED <<inputs, stage, nidq_meta, last_sample_index, nidq_raw_data,
                   digital_array, iteration_index_nidq, tables, queue>>

\* Lines 91-99: readMeta, t_end, SampRate, the sample range.
LoadMeta ==
    /\ pc = "meta"
    /\ LET r == readMeta(nidq_bin_full_path[1])
       IN  IF r.err # ""
           THEN /\ Raise(r.err)
                /\ UNCHANGED <<nidq_meta, last_sample_index>>
           ELSE /\ nidq_meta' = <<r.meta>>
                /\ last_sample_index' = <<LastSampleIndex(r.meta)>>
                /\ pc' = "mmap"
                /\ UNCHANGED err
    /\ UNCHANGED <<inputs, stage, nidq_bin_full_path, nidq_raw_data,
                   digital_array, iteration_index_nidq, tables, queue>>

\* Variant of MapRaw: a size error is swallowed and the whole frames mapped.
MapRawLenient ==
    /\ pc = "mmap"
    /\ nidq_raw_data' = <<nidq_bin_full_path[1].words>>
    /\ pc' = "extract"
    /\ UNCHANGED <<inputs, stage, err, nidq_bin_full_path, nidq_meta,
                   last_sample_index, digital_array, iteration_index_nidq,
                   tables, queue>>

\* Line 102: makeMemMapRaw.
MapRaw ==
    /\ pc = "mmap"
    /\ LET r == makeMemMapRaw(nidq_bin_full_path[1], nidq_meta[1])
       IN  IF r.err # ""
           THEN /\ Raise(r.err)
                /\ UNCHANGED nidq_raw_data
           ELSE /\ nidq_raw_data' = <<r.data>>
                /\ pc' = "extract"
                /\ UNCHANGED err
    /\ UNCHANGED <<inputs, stage, nidq_bin_full_path, nidq_meta,
                   last_sample_index, digital_array, iteration_index_nidq,
                   tables, queue>>

\* Lines 105-107: ExtractDigital over the whole file time.
Extract ==
    /\ pc = "extract"
    /\ LET r == ExtractDigital(nidq_raw_data[1], first_sample_index,
                               last_sample_index[1], dw, d_line_list)
       IN  IF r.err # ""
           THEN /\ Raise(r.err)
                /\ UNCHANGED <<digital_array, stage>>
           ELSE /\ digital_array' = <<r.array>>
                /\ stage' = "TraceExtracted"
                /\ pc' = "edges"
                /\ UNCHANGED err
    /\ UNCHANGED <<inputs, nidq_bin_full_path, nidq_meta, last_sample_index,
                   nidq_raw_data, iteration_index_nidq, tables, queue>>

\* Variant of DetectEdges: an empty index is taken for a failure.
DetectEdgesNonEmpty ==
    /\ pc = "edges"
    /\ IF IterationIndex(digital_array[1]) = <<>>
       THEN /\ Raise("IndexError")
            /\ UNCHANGED <<iteration_index_nidq, stage>>
       ELSE /\ iteration_index_nidq' = <<IterationIndex(digital_array[1])>>
            /\ stage' = "EdgesDetected"
            /\ pc' = "insert"
            /\ UNCHANGED err
    /\ UNCHANGED <<inputs, nidq_bin_full_path, nidq_meta, last_sample_index,
                   nidq_raw_data, digital_array, tables, queue>>

\* Line 108: the positions where line 1 changes level.
DetectEdges ==
    /\ pc = "edges"
    /\ iteration_index_nidq' = <<IterationIndex(digital_array[1])>>
    /\ stage' = "EdgesDetected"
    /\ pc' = "insert"
    /\ UNCHANGED <<inputs, err, nidq_bin_full_path, nidq_meta,
                   last_sample_index, nidq_raw_data, digital_array, tables,
                   queue>>

\* Variant of InsertPrimary: the master row is not inserted before the loop.
InsertPrimarySkipped ==
    /\ pc = "insert"
    /\ pc' = "fetch"
    /\ UNCHANGED <<inputs, stage, err, locals, tables, queue>>

\* Lines 110-112: self.insert1 of the master row.
InsertPrimary ==
    /\ pc = "insert"
    /\ BehaviorSync' = BehaviorSync \cup
          {[nidq_sampling_rate |-> SampRate(nidq_meta[1]),
            iteration_index_nidq |-> iteration_index_nidq[1]]}
    /\ pc' = "fetch"
    /\ UNCHANGED <<inputs, stage, err, locals, ImecSamplingRate, queue>>

\* Line 115: the probe insertions of the session.
FetchProbes ==
    /\ pc = "fetch"
    /\ queue' = probes
    /\ stage' = "ProbesReconciled"
    /\ pc' = "probe"
    /\ UNCHANGED <<inputs, err, locals, tables>>

\* Variant of ProbeStep: a probe without a binary file gets a rate of zero.
ProbeStepDefaulting ==
    /\ pc = "probe"
    /\ queue # <<>>
    /\ LET probe_insertion == Head(queue)
           matches == imecListing[probe_insertion]
       IN  IF matches = <<>>
           THEN /\ ImecSamplingRate' = ImecSamplingRate \cup
                      {[insertion_number |-> probe_insertion,
                        ephys_sampling_rate |-> 0]}
                /\ queue' = Tail(queue)
                /\ UNCHANGED <<pc, err>>
           ELSE LET r == readMeta(matches[1])
                IN  IF r.err # ""
                    THEN /\ Raise(r.err)
                         /\ UNCHANGED <<ImecSamplingRate, queue>>
                    ELSE /\ ImecSamplingRate' = ImecSamplingRate \cup
                               {[insertion_number |-> probe_insertion,
                                 ephys_sampling_rate |-> r.meta.imSampRate]}
                         /\ queue' = Tail(queue)
                         /\ UNCHANGED <<pc, err>>
    /\ UNCHANGED <<inputs, stage, locals, BehaviorSync>>

\* Lines 116-121: one pass of the for loop.
ProbeStep ==
    /\ pc = "probe"
    /\ queue # <<>>
    /\ LET probe_insertion == Head(queue)
           matches == imecListing[probe_insertion]
       IN  IF matches = <<>>
           THEN /\ Raise("IndexError")
                /\ UNCHANGED <<ImecSamplingRate, queue>>
           ELSE LET r == readMeta(matches[1])
                IN  IF r.err # ""
                    THEN /\ Raise(r.err)
                         /\ UNCHANGED <<ImecSamplingRate, queue>>
                    ELSE /\ ImecSamplingRate' = ImecSamplingRate \cup
                               {[insertion_number |-> probe_insertion,
                                 ephys_sampling_rate |-> r.meta.imSampRate]}
                         /\ queue' = Tail(queue)
                         /\ UNCHANGED <<pc, err>>
    /\ UNCHANGED <<inputs, stage, locals, BehaviorSync>>

\* The for loop is exhausted and make returns.
Return ==
    /\ pc = "probe"
    /\ queue = <<>>
    /\ pc' = "done"
    /\ UNCHANGED <<inputs, stage, err, locals, tables, queue>>

Next ==
    \/ LocatePrimary
    \/ LoadMeta
    \/ MapRaw
    \/ Extract
    \/ DetectEdges
    \/ InsertPrimary
    \/ FetchProbes
    \/ ProbeStep
    \/ Return

Spec == Init /\ [][Next]_vars

---------------------------------------------------------------------------
(* Edge detection runs: one nidq recording of up to MaxTrace samples whose *)
(* sidecar declares exactly the file's duration, and one probe.            *)

EdgeFile(w) ==
    [meta |-> [ok |-> TRUE, niSampRate |-> 1, fileTimeSecs10 |-> 10 * Len(w),
               nSavedChans |-> SavedChans],
     bytes |-> Len(w) * FrameBytes,
     words |-> w]

InitEdge ==
    /\ \E w \in SeqsUpTo(EdgeWordValues, MaxTrace) : nidqListing = <<EdgeFile(w)>>
    /\ probes = <<0>>
    /\ imecListing = [n \in ProbeNumbers |-> <<ImecOk(30000)>>]
    /\ pc = "glob"
    /\ stage = "MetadataPending"
    /\ err = ""
    /\ nidq_bin_full_path = <<>>
    /\ nidq_meta = <<>>
    /\ last_sample_index = <<>>
    /\ nidq_raw_data = <<>>
    /\ digital_array = <<>>
    /\ iteration_index_nidq = <<>>
    /\ BehaviorSync = {}
    /\ ImecSamplingRate = {}
    /\ queue = <<>>

SpecEdge == InitEdge /\ [][Next]_vars

---------------------------------------------------------------------------
(* Vocabulary of the properties.                                           *)

Ended == pc \in {"done", "failed"}

Supplied == Range(probes)

\* The trace of line 1 that make holds, once extracted.
Line1 == digital_array[1][2]

\* Zero-based reading of a trace.
At(x, i) == x[i + 1]

StrictlyIncreasing(s) == \A i, j \in DOMAIN s : i < j => s[i] < s[j]

\* Zero-based i in 1..N-1 with abs(x[i] - x[i-1]) > 0.5.
AfterTransition(x) ==
    {i \in 1..(Len(x) - 1) : 2 * Abs(At(x, i) - At(x, i - 1)) > 1}

\* Zero-based j in 0..N-2 with abs(x[j+1] - x[j]) > 0.5.
BeforeTransition(x) ==
    {j \in 0..(Len(x) - 2) : 2 * Abs(At(x, j + 1) - At(x, j)) > 1}

RisingCount(x) ==
    Cardinality({j \in 0..(Len(x) - 2) : At(x, j) = 0 /\ At(x, j + 1) = 1})

FallingCount(x) ==
    Cardinality({j \in 0..(Len(x) - 2) : At(x, j) = 1 /\ At(x, j + 1) = 0})

IndexComputed == iteration_index_nidq # <<>>

\* What the trace of line 1 must be: bit 1 of every word in the range.
Line1OfWords ==
    [k \in 1..(last_sample_index[1] + 1) |-> LineBit(nidq_raw_data[1][k], 1)]

\* C3 as stated: the iteration index lists, in strictly increasing order,
\* every zero-based i (1 <= i < length) with abs(trace[i] - trace[i-1]) > 0.5,
\* the sample after each transition of line 1, and 5 rising plus 5 falling
\* edges give 10 indices.
C3_IndexAfterTransition ==
    IndexComputed =>
        /\ StrictlyIncreasing(iteration_index_nidq[1])
        /\ Range(iteration_index_nidq[1]) = AfterTransition(Line1)
        /\ (RisingCount(Line1) = 5 /\ FallingCount(Line1) = 5
               => Len(iteration_index_nidq[1]) = 10)

\* C3 amended: the iteration index lists, in strictly increasing order and
\* without repetition, every zero-based j (0 <= j < length - 1) with
\* abs(trace[j+1] - trace[j]) > 0.5, the sample before each rising or falling
\* transition of line 1, and 5 rising plus 5 falling edges give 10 indices.
C3_IndexBeforeTransition ==
    IndexComputed =>
        /\ StrictlyIncreasing(iteration_index_nidq[1])
        /\ Range(iteration_index_nidq[1]) = BeforeTransition(Line1)
        /\ (RisingCount(Line1) = 5 /\ FallingCount(Line1) = 5
               => Len(iteration_index_nidq[1]) = 10)

C3_Witness ==
    /\ IndexComputed
    /\ RisingCount(Line1) = 5
    /\ FallingCount(Line1) = 5
    /\ Len(iteration_index_nidq[1]) = 10

\* Sample k (zero-based) of a square wave of period P: high for the first
\* P \div 2 samples of each period, shifted by phase, inverted if inv = 1.
SquareSample(P, phase, inv, k) ==
    LET v == IF ((k + phase) % P) < (P \div 2) THEN 1 ELSE 0
    IN  IF inv = 1 THEN 1 - v ELSE v

IsSquareWave(x, P) ==
    \E phase \in 0..(P - 1), inv \in {0, 1} :
        \A k \in 0..(Len(x) - 1) : At(x, k) = SquareSample(P, phase, inv, k)

Periods == 2..MaxPeriod

\* Consecutive indices are P/2 apart, within one sample.
HalfPeriodSpaced(idx, P) ==
    \A k \in 1..(Len(idx) - 1) : Abs(2 * (idx[k + 1] - idx[k]) - P) <= 2

\* C9 as stated: on a square wave of period P over N samples the detector
\* returns floor(N/P) indices, within one, spaced P/2 apart within one sample.
C9_CountPerPeriod ==
    IndexComputed =>
        \A P \in Periods :
            IsSquareWave(Line1, P) =>
                /\ Abs(Len(iteration_index_nidq[1]) - (Len(Line1) \div P)) <= 1
                /\ HalfPeriodSpaced(iteration_index_nidq[1], P)

\* C9 amended: on a square wave of period P over N samples the detector
\* returns floor(2N/P) indices, within one (two edges per period), spaced P/2
\* apart within one sample.
C9_CountPerHalfPeriod ==
    IndexComputed =>
        \A P \in Periods :
            IsSquareWave(Line1, P) =>
                /\ Abs(Len(iteration_index_nidq[1]) - ((2 * Len(Line1)) \div P)) <= 1
                /\ HalfPeriodSpaced(iteration_index_nidq[1], P)

C9_Witness ==
    /\ IndexComputed
    /\ IsSquareWave(Line1, 4)
    /\ Len(Line1) = 10
    /\ Len(iteration_index_nidq[1]) = 5

---------------------------------------------------------------------------
(* make as a function of its inputs, for comparing runs.                   *)

\* Lines 87-112 in one piece: the master rows, or the failure.
PrimaryOutcome(listing) ==
    IF listing = <<>> THEN [ok |-> FALSE, rows |-> {}]
    ELSE
      LET f == listing[1]
          m == readMeta(f)
      IN  IF m.err # "" THEN [ok |-> FALSE, rows |-> {}]
          ELSE
            LET raw == makeMemMapRaw(f, m.meta)
            IN  IF raw.err # "" THEN [ok |-> FALSE, rows |-> {}]
                ELSE
                  LET d == ExtractDigital(raw.data, first_sample_index,
                                          LastSampleIndex(m.meta), dw,
                                          d_line_list)
                  IN  IF d.err # "" THEN [ok |-> FALSE, rows |-> {}]
                      ELSE [ok |-> TRUE,
                            rows |-> {[nidq_sampling_rate |-> SampRate(m.meta),
                                       iteration_index_nidq |->
                                           IterationIndex(d.array)]}]

\* Lines 115-121 in one piece: the part rows inserted before the loop ends
\* or an exception leaves it.
RECURSIVE ProbeOutcome(_, _)
ProbeOutcome(q, listing) ==
    IF q = <<>> THEN [ok |-> TRUE, rows |-> {}]
    ELSE
      LET matches == listing[Head(q)]
      IN  IF matches = <<>> THEN [ok |-> FALSE, rows |-> {}]
          ELSE
            LET m == readMeta(matches[1])
            IN  IF m.err # "" THEN [ok |-> FALSE, rows |-> {}]
                ELSE
                  LET rest == ProbeOutcome(Tail(q), listing)
                  IN  [ok |-> rest.ok,
                       rows |-> {[insertion_number |-> Head(q),
                                  ephys_sampling_rate |-> m.meta.imSampRate]}
                                \cup rest.rows]

\* Lines 86-121: whether make returned, and the rows it left in the tables.
MakeOutcome(nl, il, ps) ==
    LET p == PrimaryOutcome(nl)
    IN  IF ~p.ok THEN [done |-> FALSE, master |-> {}, part |-> {}]
        ELSE LET r == ProbeOutcome(ps, il)
             IN  [done |-> r.ok, master |-> p.rows, part |-> r.rows]

\* The outcome of the run at hand.
Outcome == [done |-> pc = "done", master |-> BehaviorSync, part |-> ImecSamplingRate]

\* The step-by-step run and the function agree.
OutcomeAgreement == Ended => Outcome = MakeOutcome(nidqListing, imecListing, probes)

\* The orders in which a directory listing can return the same matches.
Reorderings(s) == {[i \in DOMAIN s |-> s[p[i]]] : p \in Permutations(DOMAIN s)}

ReorderedImec ==
    {il \in [ProbeNumbers -> UNION {Reorderings(imecListing[n]) : n \in ProbeNumbers}] :
        \A n \in ProbeNumbers : il[n] \in Reorderings(imecListing[n])}

---------------------------------------------------------------------------
(* Properties of a session run.                                            *)

HasRow(n) == \E row \in ImecSamplingRate : row.insertion_number = n

\* The probe's binary file is in the session directory.
FilePresent(n) == imecListing[n] # <<>>

\* Every sidecar of the probe's matches parses.
SidecarsParse(n) == \A i \in DOMAIN imecListing[n] : imecListing[n][i].meta.ok

MissingProbes == {n \in Supplied : ~FilePresent(n)}

NothingProduced ==
    /\ BehaviorSync = {}
    /\ ImecSamplingRate = {}
    /\ iteration_index_nidq = <<>>

\* C1: when the primary pass succeeded and exactly one supplied probe has no
\* binary file (the sidecars of the others parse), the run ends successfully
\* with the master row, a row for every other supplied probe whose file is
\* present, also those after the missing one, and no row for the missing one.
C1_MissingProbeTolerated ==
    (/\ Ended
     /\ stage = "ProbesReconciled"
     /\ Cardinality(MissingProbes) = 1
     /\ \A n \in Supplied : SidecarsParse(n))
    => /\ pc = "done"
       /\ BehaviorSync # {}
       /\ \A n \in Supplied : HasRow(n) <=> FilePresent(n)

NoPrimaryMatch == nidqListing = <<>>

PrimaryMetaBad == nidqListing # <<>> /\ ~nidqListing[1].meta.ok

StageRank(st) ==
    CASE st = "MetadataPending" -> 0
      [] st = "TraceExtracted" -> 1
      [] st = "EdgesDetected" -> 2
      [] st = "ProbesReconciled" -> 3

\* C4: every step keeps the stage or moves it to the next one, in the order
\* MetadataPending, TraceExtracted, EdgesDetected, ProbesReconciled; nothing
\* follows ProbesReconciled; a failed run takes no further step; a probe rate
\* is recorded only after the master row, with the primary sampling rate and
\* the iteration index, is in place.
C4_StagesInOrder ==
    [][/\ StageRank(stage') \in {StageRank(stage), StageRank(stage) + 1}
       /\ stage = "ProbesReconciled" => stage' = "ProbesReconciled"
       /\ pc = "failed" => pc' = "failed" /\ stage' = stage
       /\ (pc' = "failed" /\ pc # "failed") => stage' = stage
       /\ ImecSamplingRate' # ImecSamplingRate =>
             /\ stage = "ProbesReconciled"
             /\ iteration_index_nidq # <<>>
             /\ BehaviorSync =
                   {[nidq_sampling_rate |-> SampRate(nidq_meta[1]),
                     iteration_index_nidq |-> iteration_index_nidq[1]]}
      ]_vars

C4_Witness ==
    /\ pc = "done"
    /\ stage = "ProbesReconciled"
    /\ Cardinality(ImecSamplingRate) = 2

\* C5: a row of the probe rates belongs to a supplied probe whose binary was
\* found and whose sidecar parsed, and holds the rate that sidecar declares;
\* no probe has two rows, none holds a placeholder; when the run returns and
\* every supplied probe's files are present there is one row per probe.
C5_RatesFromOwnSidecar ==
    /\ \A row \in ImecSamplingRate :
          /\ row.insertion_number \in Supplied
          /\ FilePresent(row.insertion_number)
          /\ \E i \in DOMAIN imecListing[row.insertion_number] :
                LET f == imecListing[row.insertion_number][i]
                IN  f.meta.ok /\ row.ephys_sampling_rate = f.meta.imSampRate
          /\ row.ephys_sampling_rate \in ImecRates
    /\ \A r1, r2 \in ImecSamplingRate :
          r1.insertion_number = r2.insertion_number => r1 = r2
    /\ \A n \in Supplied : ~FilePresent(n) => ~HasRow(n)
    /\ (/\ Ended
        /\ stage = "ProbesReconciled"
        /\ \A n \in Supplied : FilePresent(n) /\ SidecarsParse(n))
       => /\ pc = "done"
          /\ \A n \in Supplied : HasRow(n)
          /\ Cardinality(ImecSamplingRate) = Len(probes)

C5_Witness ==
    /\ pc = "done"
    /\ Len(probes) >= 1
    /\ Cardinality(ImecSamplingRate) = Len(probes)
    /\ \E n \in Supplied : Len(imecListing[n]) = 2
    /\ \E n \in ProbeNumbers \ Supplied : FilePresent(n)

Constant(x) == \A i, j \in DOMAIN x : x[i] = x[j]

\* C6: when line 1 has no transition over the sample range, edge detection
\* does not fail: the iteration index is empty, the master row holds the
\* primary sampling rate with the empty index, and the probes are visited as
\* for any other index; only the probe loop can still end the run.
C6_ConstantTraceIsValid ==
    (digital_array # <<>> /\ Constant(Line1)) =>
        /\ pc = "failed" => stage = "ProbesReconciled"
        /\ pc # "edges" => iteration_index_nidq = <<<<>>>>
        /\ pc \notin {"edges", "insert"} =>
              BehaviorSync = {[nidq_sampling_rate |-> nidqListing[1].meta.niSampRate,
                               iteration_index_nidq |-> <<>>]}
        /\ Ended => ImecSamplingRate = ProbeOutcome(probes, imecListing).rows

C6_Witness ==
    /\ pc = "done"
    /\ Len(Line1) = 3
    /\ Constant(Line1)
    /\ ~Constant(digital_array[1][1])
    /\ Cardinality(ImecSamplingRate) = 2

\* The primary file in use is not a whole number of frames long.
PrimaryMisSized ==
    /\ nidqListing # <<>>
    /\ nidqListing[1].meta.ok
    /\ nidqListing[1].bytes % (nidqListing[1].meta.nSavedChans * 2) # 0

\* C7: a primary file whose length is not a multiple of
\* channel_count * bytes_per_sample is refused when it is opened, with
\* CorruptRecordingError; no mapping, digital trace, iteration index or
\* master row ever comes from it.
C7_MisSizedFileRefused ==
    PrimaryMisSized =>
        /\ pc \in {"glob", "meta", "mmap", "failed"}
        /\ pc = "failed" => err = "CorruptRecordingError"
        /\ nidq_raw_data = <<>>
        /\ digital_array = <<>>
        /\ NothingProduced

C7_Witness ==
    /\ PrimaryMisSized
    /\ nidqListing[1].bytes = 3 * FrameBytes - 1
    /\ pc = "failed"
    /\ err = "CorruptRecordingError"

\* C8: the range asked of the extraction is [0, int(rate * fileTimeSecs) - 1];
\* when it reaches past the samples the file holds the run fails with
\* RangeError and produces no trace, index or row; a trace that is produced
\* covers the whole range.
C8_RangeFromSidecarNotClamped ==
    /\ last_sample_index # <<>> =>
          last_sample_index[1] =
              ((nidq_meta[1].niSampRate * nidq_meta[1].fileTimeSecs10) \div 10) - 1
    /\ (nidq_raw_data # <<>> /\ last_sample_index[1] >= Len(nidq_raw_data[1])) =>
          /\ pc \in {"extract", "failed"}
          /\ pc = "failed" => err = "RangeError"
          /\ digital_array = <<>>
          /\ NothingProduced
    /\ digital_array # <<>> =>
          /\ Len(Line1) = last_sample_index[1] + 1
          /\ Line1 = Line1OfWords

C8_Witness ==
    /\ pc = "failed"
    /\ err = "RangeError"
    /\ Len(nidq_raw_data[1]) = 2
    /\ last_sample_index[1] = 2

\* C10: the outcome of a run depends on the matches in the directory and the
\* probe list only: had the listing returned the same matches in any other
\* order, the run would have ended the same way with the same rows.
C10_ListingOrderIrrelevant ==
    Ended =>
        \A nl \in Reorderings(nidqListing), il \in ReorderedImec :
            MakeOutcome(nl, il, probes) = Outcome

====
